---- MODULE Spec2Model ----
(***************************************************************************)
(* Petty-cash ledger: the reducer-backed store of PettyCashContext.tsx,    *)
(* its load/save effects on localStorage, and the page handlers that       *)
(* dispatch to it (initialize, disburse, replenish, settings), the         *)
(* reconcile page with its own history list, and the history view.         *)
(*                                                                         *)
(* Amounts are integers: one unit is 0.005 of the currency (half a cent),  *)
(* so that the reconciliation tolerance of 0.01 is two units.  Date.now()  *)
(* is the counter `now`, which advances at every creation of a transaction *)
(* or of a reconciliation record, so generated ids are distinct.           *)
(***************************************************************************)
EXTENDS Integers, Sequences, FiniteSets, TLC

VARIABLES
    state,          \* useReducer state of PettyCashProvider: the in-memory ledger
    stored,         \* localStorage entry "pettyCashData"
    phase,          \* "mount": first render committed, effects not yet run; "running";
                    \* "crashed": an error escaped an effect and React unmounted the tree
    pendingLoad,    \* LOAD_FROM_STORAGE dispatched by the load effect, not yet rendered
    savePending,    \* the save effect is scheduled (state reference changed)
    now,            \* Date.now(), advanced at each transaction creation
    backup,         \* the last exported backup file (fundData part)
    page,           \* the mounted page component
    isSubmitting,   \* isSubmitting of the mounted page instance
    showConfirmDialog, \* InitializePage.showConfirmDialog
    timers,         \* pending setTimeout continuations of the async submit handlers
    actualCash,     \* ReconcilePage.actualCash: the text of the cash input
    hasReconciled,  \* ReconcilePage.hasReconciled
    reconciliationHistory, \* ReconcilePage.reconciliationHistory (<<>> while not mounted)
    storedHistory,  \* localStorage entry "reconciliationHistory"
    lastOp,         \* history: the last operation that acted on the store
    wiped,          \* history: ids of the transactions held when reset() ran in this session
    bootStored,     \* history: the "pettyCashData" entry found when the session started
    otherTab,       \* the provider of a second tab on the same localStorage
    attempts,       \* RateLimiter.attempts: key -> times of the attempts it recorded
    granted,        \* history: key -> times isAllowed returned true since reset(key)
    created         \* history: the reconciliation records created or imported since
                    \* the "reconciliationHistory" entry was last removed, newest first

vars == <<state, stored, phase, pendingLoad, savePending, now, backup, page,
          isSubmitting, showConfirmDialog, timers, actualCash, hasReconciled,
          reconciliationHistory, storedHistory, lastOp, wiped, bootStored,
          otherTab, attempts, granted, created>>

storeVars == <<state, stored, phase, pendingLoad, savePending, now, backup>>
uiVars == <<page, isSubmitting, showConfirmDialog, timers>>
formVars == <<actualCash, hasReconciled, reconciliationHistory>>
reconcileVars == <<actualCash, hasReconciled, reconciliationHistory, storedHistory>>
limiterVars == <<attempts, granted>>
extraVars == <<otherTab, attempts, granted, created>>

---------------------------------------------------------------------------
(* Bounds *)

MaxOps == 3        \* transactions and reconciliation records created over a
                   \* behaviour (caps `now`)
MaxAmount == 2     \* amounts range over 1..MaxAmount
MaxTimers == 2     \* pending timer continuations

InitializeDelayMs == 1000   \* handleConfirmInitialization's setTimeout
SubmitDelayMs == 500        \* the disburse and replenish forms' setTimeout

Amounts == 1..MaxAmount
Dates == {"2024-01-01"}
Purposes == {"Other: supplies"}
Recipients == {"Jane Doe"}
Pages == {"dashboard", "initialize", "disburse", "replenish", "settings"}

---------------------------------------------------------------------------
(* Data model *)

initialState == [balance |-> 0, transactions |-> <<>>, isInitialized |-> FALSE]

generateTransactionId(t) == <<"TXN", t>>

\* localStorage.getItem returns null for a missing key, else the stored string.
NoData == [has |-> FALSE, text |-> <<>>]

(* JSON.stringify of a Transaction: the object's own keys in insertion order, *)
(* as a flat sequence of key, value, ...; purpose and recipient exist only    *)
(* on disbursements.                                                          *)
StringifyTx(t) ==
    IF t.type = "disbursement"
    THEN <<"id", t.id, "type", t.type, "amount", t.amount, "date", t.date,
           "purpose", t.purpose, "recipient", t.recipient, "timestamp", t.timestamp>>
    ELSE <<"id", t.id, "type", t.type, "amount", t.amount, "date", t.date,
           "timestamp", t.timestamp>>

\* Mutant of ParseTx: reads the recipient from the purpose's position.
ParseTxMisreadsRecipient(j) ==
    IF Len(j) = 14
    THEN [id |-> j[2], type |-> j[4], amount |-> j[6], date |-> j[8],
          purpose |-> j[10], recipient |-> j[10], timestamp |-> j[14]]
    ELSE [id |-> j[2], type |-> j[4], amount |-> j[6], date |-> j[8],
          timestamp |-> j[10]]

ParseTx(j) ==
    IF Len(j) = 14
    THEN [id |-> j[2], type |-> j[4], amount |-> j[6], date |-> j[8],
          purpose |-> j[10], recipient |-> j[12], timestamp |-> j[14]]
    ELSE [id |-> j[2], type |-> j[4], amount |-> j[6], date |-> j[8],
          timestamp |-> j[10]]

\* JSON.stringify(state)
Stringify(s) ==
    <<"balance", s.balance,
      "transactions", [i \in 1..Len(s.transactions) |-> StringifyTx(s.transactions[i])],
      "isInitialized", s.isInitialized>>

\* JSON.parse(stored)
Parse(j) ==
    [balance |-> j[2],
     transactions |-> [i \in 1..Len(j[4]) |-> ParseTx(j[4][i])],
     isInitialized |-> j[6]]

\* An optional field holds <<>> when it is undefined and <<v>> when it is v;
\* JSON.stringify leaves undefined keys out.
undefined == <<>>

(* JSON.stringify of a ReconciliationRecord, as for transactions; the key    *)
(* explanation is written only when it is defined.                           *)
StringifyRecord(r) ==
    IF r.explanation = undefined
    THEN <<"id", r.id, "date", r.date, "theoreticalBalance", r.theoreticalBalance,
           "actualCash", r.actualCash, "difference", r.difference,
           "timestamp", r.timestamp>>
    ELSE <<"id", r.id, "date", r.date, "theoreticalBalance", r.theoreticalBalance,
           "actualCash", r.actualCash, "difference", r.difference,
           "explanation", r.explanation[1], "timestamp", r.timestamp>>

ParseRecord(j) ==
    IF Len(j) = 14
    THEN [id |-> j[2], date |-> j[4], theoreticalBalance |-> j[6], actualCash |-> j[8],
          difference |-> j[10], explanation |-> <<j[12]>>, timestamp |-> j[14]]
    ELSE [id |-> j[2], date |-> j[4], theoreticalBalance |-> j[6], actualCash |-> j[8],
          difference |-> j[10], explanation |-> undefined, timestamp |-> j[12]]

(* The "reconciliationHistory" entry is held as the list of its records'     *)
(* texts; a missing entry and "[]" both read as the empty list               *)
(* (stored ? JSON.parse(stored) : []).                                       *)
StringifyHistory(h) == [i \in 1..Len(h) |-> StringifyRecord(h[i])]

ParseHistory(j) == [i \in 1..Len(j) |-> ParseRecord(j[i])]

\* JSON.parse throws a SyntaxError unless the text is complete; the texts met
\* here are snapshots written by the save effect, whole or cut short.
CanParse(j) == Len(j) = Len(Stringify(initialState))

---------------------------------------------------------------------------
(* The reducer *)

(* Mutants of the reducer cases: each is the case with one plausible slip. *)

\* INITIALIZE that forgets to set isInitialized.
reduceInitializeKeepsFlag(s, payload, t) ==
    [balance |-> payload.amount,
     transactions |-> << [id |-> generateTransactionId(t),
                          type |-> "initialization",
                          amount |-> payload.amount,
                          date |-> payload.date,
                          timestamp |-> t] >>,
     isInitialized |-> s.isInitialized]

\* DISBURSE that records the transaction but leaves the balance alone.
reduceDisburseKeepsBalance(s, payload, t) ==
    [s EXCEPT !.transactions = Append(s.transactions,
                                      [id |-> generateTransactionId(t),
                                       type |-> "disbursement",
                                       amount |-> payload.amount,
                                       date |-> payload.date,
                                       purpose |-> payload.purpose,
                                       recipient |-> payload.recipient,
                                       timestamp |-> t])]

\* DISBURSE that stores the purpose in the recipient field.
reduceDisburseSwapsRecipient(s, payload, t) ==
    [s EXCEPT !.balance = s.balance - payload.amount,
              !.transactions = Append(s.transactions,
                                      [id |-> generateTransactionId(t),
                                       type |-> "disbursement",
                                       amount |-> payload.amount,
                                       date |-> payload.date,
                                       purpose |-> payload.purpose,
                                       recipient |-> payload.purpose,
                                       timestamp |-> t])]

\* DISBURSE that refuses an amount above the balance.
reduceDisburseChecksFunds(s, payload, t) ==
    IF payload.amount > s.balance THEN s
    ELSE [s EXCEPT !.balance = s.balance - payload.amount,
                   !.transactions = Append(s.transactions,
                                           [id |-> generateTransactionId(t),
                                            type |-> "disbursement",
                                            amount |-> payload.amount,
                                            date |-> payload.date,
                                            purpose |-> payload.purpose,
                                            recipient |-> payload.recipient,
                                            timestamp |-> t])]

\* REPLENISH that starts the list over instead of spreading the old one.
reduceReplenishDropsHistory(s, payload, t) ==
    [s EXCEPT !.balance = s.balance + payload.amount,
              !.transactions = << [id |-> generateTransactionId(t),
                                   type |-> "replenishment",
                                   amount |-> payload.amount,
                                   date |-> payload.date,
                                   timestamp |-> t] >>]

\* INITIALIZE that spreads the old list like the other cases do.
reduceInitializeAppends(s, payload, t) ==
    [balance |-> payload.amount,
     transactions |-> Append(s.transactions,
                             [id |-> generateTransactionId(t),
                              type |-> "initialization",
                              amount |-> payload.amount,
                              date |-> payload.date,
                              timestamp |-> t]),
     isInitialized |-> TRUE]

\* REPLENISH that marks the ledger initialized.
reduceReplenishInitializes(s, payload, t) ==
    [balance |-> s.balance + payload.amount,
     transactions |-> Append(s.transactions,
                             [id |-> generateTransactionId(t),
                              type |-> "replenishment",
                              amount |-> payload.amount,
                              date |-> payload.date,
                              timestamp |-> t]),
     isInitialized |-> TRUE]

\* case "INITIALIZE"
reduceInitialize(s, payload, t) ==
    [balance |-> payload.amount,
     transactions |-> << [id |-> generateTransactionId(t),
                          type |-> "initialization",
                          amount |-> payload.amount,
                          date |-> payload.date,
                          timestamp |-> t] >>,
     isInitialized |-> TRUE]

\* case "DISBURSE"
reduceDisburse(s, payload, t) ==
    [s EXCEPT !.balance = s.balance - payload.amount,
              !.transactions = Append(s.transactions,
                                      [id |-> generateTransactionId(t),
                                       type |-> "disbursement",
                                       amount |-> payload.amount,
                                       date |-> payload.date,
                                       purpose |-> payload.purpose,
                                       recipient |-> payload.recipient,
                                       timestamp |-> t])]

\* case "REPLENISH"
reduceReplenish(s, payload, t) ==
    [s EXCEPT !.balance = s.balance + payload.amount,
              !.transactions = Append(s.transactions,
                                      [id |-> generateTransactionId(t),
                                       type |-> "replenishment",
                                       amount |-> payload.amount,
                                       date |-> payload.date,
                                       timestamp |-> t])]

\* case "LOAD_FROM_STORAGE"
reduceLoadFromStorage(s, payload) == payload

pettyCashReducer(s, action, t) ==
    CASE action.type = "INITIALIZE" -> reduceInitialize(s, action.payload, t)
      [] action.type = "DISBURSE" -> reduceDisburse(s, action.payload, t)
      [] action.type = "REPLENISH" -> reduceReplenish(s, action.payload, t)
      [] action.type = "LOAD_FROM_STORAGE" -> reduceLoadFromStorage(s, action.payload)
      [] OTHER -> s

\* The reducer builds a new state object for these kinds; the default branch
\* returns the same reference, so React neither re-renders nor re-runs the
\* [state] effect.
ReturnsNewState(action) ==
    action.type \in {"INITIALIZE", "DISBURSE", "REPLENISH", "LOAD_FROM_STORAGE"}

CreatesTransaction(action) ==
    action.type \in {"INITIALIZE", "DISBURSE", "REPLENISH"}

---------------------------------------------------------------------------
(* Provider: initial render, effects *)

\* InitializePage's redirect effect is due: the page is mounted on an
\* initialized ledger.
RedirectPending == page = "initialize" /\ state.isInitialized

\* Nothing is scheduled: the effects of the last render have run and no
\* dispatched action waits for its render.
Idle == phase = "running" /\ ~savePending /\ pendingLoad = <<>> /\ ~RedirectPending

\* A tab that has not been opened.
ClosedTab == [state |-> initialState, phase |-> "closed",
              pendingLoad |-> <<>>, savePending |-> FALSE]

\* The keys isAllowed is called with by the initialize page; new Map().
Keys == {"form-submit", "amount-input"}
NoAttempts == [key \in Keys |-> <<>>]

Init ==
    /\ state = initialState
    /\ stored = NoData
    /\ phase = "mount"
    /\ pendingLoad = <<>>
    /\ savePending = TRUE
    /\ now = 0
    /\ backup = <<>>
    /\ page = "dashboard"
    /\ isSubmitting = FALSE
    /\ showConfirmDialog = FALSE
    /\ timers = <<>>
    /\ actualCash = ""
    /\ hasReconciled = FALSE
    /\ reconciliationHistory = <<>>
    /\ storedHistory = <<>>
    /\ lastOp = "none"
    /\ wiped = {}
    /\ bootStored = NoData
    /\ otherTab = ClosedTab
    /\ attempts = NoAttempts
    /\ granted = NoAttempts
    /\ created = <<>>

\* dispatch(action) followed by the render that applies it.
Dispatch(action) ==
    /\ state' = pettyCashReducer(state, action, now + 1)
    /\ now' = IF CreatesTransaction(action) THEN now + 1 ELSE now
    /\ savePending' = (savePending \/ ReturnsNewState(action))

\* Mutant of the load effect: reads the entry but never dispatches it.
LoadEffectNeverDispatches ==
    /\ phase = "mount"
    /\ phase' = "running"
    /\ pendingLoad' = <<>>
    /\ UNCHANGED <<state, stored, savePending, now, backup, uiVars, lastOp, wiped, bootStored, reconcileVars, extraVars>>

\* Mutant of the load effect: JSON.parse outside the try block, so that its
\* SyntaxError escapes the effect.
LoadEffectRethrows ==
    /\ phase = "mount"
    /\ phase' = IF stored.has /\ stored.text # <<>> /\ ~CanParse(stored.text)
                THEN "crashed" ELSE "running"
    /\ pendingLoad' = IF stored.has /\ stored.text # <<>> /\ CanParse(stored.text)
                      THEN <<Parse(stored.text)>> ELSE <<>>
    /\ UNCHANGED <<state, stored, savePending, now, backup, uiVars, lastOp, wiped, bootStored, reconcileVars, extraVars>>

\* The load effect: runs once after the first render.  An empty string is
\* falsy and skipped; a SyntaxError of JSON.parse is caught and logged.
LoadEffect ==
    /\ phase = "mount"
    /\ phase' = "running"
    /\ pendingLoad' = IF stored.has /\ stored.text # <<>> /\ CanParse(stored.text)
                      THEN <<Parse(stored.text)>> ELSE <<>>
    /\ UNCHANGED <<state, stored, savePending, now, backup, uiVars, lastOp, wiped, bootStored, reconcileVars, extraVars>>

\* Mutant of the save effect: a conflict check that leaves the entry alone
\* when it holds more transactions than this provider's state.
SaveEffectKeepsLonger ==
    /\ phase = "running"
    /\ savePending
    /\ stored' = IF /\ stored.has
                    /\ Len(Parse(stored.text).transactions) > Len(state.transactions)
                 THEN stored
                 ELSE [has |-> TRUE, text |-> Stringify(state)]
    /\ savePending' = FALSE
    /\ UNCHANGED <<state, phase, pendingLoad, now, backup, uiVars, lastOp, wiped, bootStored, reconcileVars, extraVars>>

\* The save effect: runs after the first render and after every render in
\* which the state reference changed.
SaveEffect ==
    /\ phase = "running"
    /\ savePending
    /\ stored' = [has |-> TRUE, text |-> Stringify(state)]
    /\ savePending' = FALSE
    /\ UNCHANGED <<state, phase, pendingLoad, now, backup, uiVars, lastOp, wiped, bootStored, reconcileVars, extraVars>>

\* The render that applies the LOAD_FROM_STORAGE queued by the load effect;
\* the effects of the first render are flushed before it.
RenderLoad ==
    /\ phase = "running"
    /\ ~savePending
    /\ pendingLoad # <<>>
    /\ Dispatch([type |-> "LOAD_FROM_STORAGE", payload |-> pendingLoad[1]])
    /\ pendingLoad' = <<>>
    /\ lastOp' = "hydrate"
    /\ page' = IF page = "initialize" /\ state'.isInitialized THEN "dashboard" ELSE page
    /\ UNCHANGED <<stored, phase, backup, isSubmitting, showConfirmDialog, timers, wiped, bootStored, reconcileVars, extraVars>>

\* Page p mounts: ReconcilePage's useState initializers (the history list is
\* read from localStorage); the other pages hold none of this state.
MountPage(p) ==
    /\ actualCash' = ""
    /\ hasReconciled' = FALSE
    /\ reconciliationHistory' =
          IF p = "reconcile" THEN ParseHistory(storedHistory) ELSE <<>>

\* The application starts again after the tab was closed or reloaded: memory,
\* component state and timers are gone, localStorage stays.
StartSession ==
    /\ state' = initialState
    /\ phase' = "mount"
    /\ pendingLoad' = <<>>
    /\ savePending' = TRUE
    /\ isSubmitting' = FALSE
    /\ showConfirmDialog' = FALSE
    /\ timers' = <<>>
    /\ MountPage(page)
    /\ lastOp' = "reload"
    /\ wiped' = {}
    /\ attempts' = NoAttempts
    /\ granted' = NoAttempts
    /\ UNCHANGED <<stored, now, backup, page, storedHistory, otherTab, created>>

\* A reload at any moment, also between a render and its effects.
Reload == StartSession /\ UNCHANGED bootStored

---------------------------------------------------------------------------
(* The store's operations, dispatched directly *)

TxIds(s) == {s.transactions[i].id : i \in 1..Len(s.transactions)}

initialize(amount, date) ==
    /\ Idle
    /\ now < MaxOps
    /\ Dispatch([type |-> "INITIALIZE", payload |-> [amount |-> amount, date |-> date]])
    /\ lastOp' = "initialize"
    /\ UNCHANGED <<stored, phase, pendingLoad, backup, uiVars, wiped, bootStored, reconcileVars, extraVars>>

disburse(amount, date, purpose, recipient) ==
    /\ Idle
    /\ now < MaxOps
    /\ Dispatch([type |-> "DISBURSE",
                 payload |-> [amount |-> amount, date |-> date,
                              purpose |-> purpose, recipient |-> recipient]])
    /\ lastOp' = "disburse"
    /\ UNCHANGED <<stored, phase, pendingLoad, backup, uiVars, wiped, bootStored, reconcileVars, extraVars>>

replenish(amount, date) ==
    /\ Idle
    /\ now < MaxOps
    /\ Dispatch([type |-> "REPLENISH", payload |-> [amount |-> amount, date |-> date]])
    /\ lastOp' = "replenish"
    /\ UNCHANGED <<stored, phase, pendingLoad, backup, uiVars, wiped, bootStored, reconcileVars, extraVars>>

\* SettingsPage.handleResetFund, once "RESET" has been typed: removes the
\* persisted entry and dispatches RESET_FUND, a kind the reducer does not know.
handleResetFund ==
    /\ Idle
    /\ stored' = NoData
    /\ Dispatch([type |-> "RESET_FUND"])
    /\ lastOp' = "reset"
    /\ wiped' = wiped \cup TxIds(state)
    /\ storedHistory' = <<>>
    /\ created' = ParseHistory(storedHistory')
    /\ UNCHANGED <<phase, pendingLoad, backup, uiVars, formVars, bootStored, otherTab, limiterVars>>

\* SettingsPage.handleExportData: the fundData and reconciliationHistory parts
\* of the downloaded backup.
handleExportData ==
    /\ Idle
    /\ backup' = <<Stringify(state), StringifyHistory(ParseHistory(storedHistory))>>
    /\ UNCHANGED <<state, stored, phase, pendingLoad, savePending, now, uiVars, lastOp, wiped, bootStored, reconcileVars, extraVars>>

\* Mutant of handleImportData: adds the backup's transactions to the ledger
\* in memory instead of replacing it.
handleImportDataMerges ==
    /\ Idle
    /\ backup # <<>>
    /\ LET fundData == Parse(backup[1]) IN
        /\ stored' = [has |-> TRUE, text |-> Stringify(fundData)]
        /\ Dispatch([type |-> "LOAD_FROM_STORAGE",
                     payload |-> [fundData EXCEPT
                                    !.transactions = state.transactions \o @]])
    /\ lastOp' = "import"
    /\ wiped' = wiped \ TxIds(Parse(backup[1]))
    /\ storedHistory' = StringifyHistory(ParseHistory(backup[2]))
    /\ created' = ParseHistory(storedHistory')
    /\ UNCHANGED <<phase, pendingLoad, backup, uiVars, formVars, bootStored, otherTab, limiterVars>>

\* SettingsPage.handleImportData (reader.onload) on a backup exported earlier.
handleImportData ==
    /\ Idle
    /\ backup # <<>>
    /\ LET fundData == Parse(backup[1]) IN
        /\ stored' = [has |-> TRUE, text |-> Stringify(fundData)]
        /\ Dispatch([type |-> "LOAD_FROM_STORAGE", payload |-> fundData])
    /\ lastOp' = "import"
    /\ wiped' = wiped \ TxIds(Parse(backup[1]))
    /\ storedHistory' = StringifyHistory(ParseHistory(backup[2]))
    /\ created' = ParseHistory(storedHistory')
    /\ UNCHANGED <<phase, pendingLoad, backup, uiVars, formVars, bootStored, otherTab, limiterVars>>

\* The statement of reader.onload's try block that throws when handleImportData
\* ends in its catch branch: JSON.parse or the format check on a file that is
\* no backup, or one of the localStorage.setItem calls (a QuotaExceededError,
\* e.g. on a bundle whose reconciliationHistory exceeds the storage quota).
ImportStages == {"parse", "fundData", "reconciliationHistory", "settings"}

\* SettingsPage.handleImportData (reader.onload) ending in its catch branch:
\* the statements before the throwing one have run.
handleImportDataFails(stage) ==
    /\ Idle
    /\ stage \in ImportStages
    /\ stage # "parse" => backup # <<>>
    /\ IF stage \in {"reconciliationHistory", "settings"}
       THEN LET fundData == Parse(backup[1]) IN
            /\ stored' = [has |-> TRUE, text |-> Stringify(fundData)]
            /\ Dispatch([type |-> "LOAD_FROM_STORAGE", payload |-> fundData])
            /\ wiped' = wiped \ TxIds(fundData)
       ELSE UNCHANGED <<state, stored, now, savePending, wiped>>
    /\ storedHistory' = IF stage = "settings"
                        THEN StringifyHistory(ParseHistory(backup[2]))
                        ELSE storedHistory
    /\ lastOp' = "importFailed"
    /\ created' = ParseHistory(storedHistory')
    /\ UNCHANGED <<phase, pendingLoad, backup, uiVars, formVars, bootStored, otherTab, limiterVars>>

NextStore ==
    \/ LoadEffect
    \/ SaveEffect
    \/ RenderLoad
    \/ Reload
    \/ \E a \in Amounts, d \in Dates : initialize(a, d)
    \/ \E a \in Amounts, d \in Dates, p \in Purposes, r \in Recipients : disburse(a, d, p, r)
    \/ \E a \in Amounts, d \in Dates : replenish(a, d)
    \/ handleResetFund
    \/ handleExportData
    \/ handleImportData

SpecStore == Init /\ [][NextStore]_vars

---------------------------------------------------------------------------
(* The pages: forms, their validation, and the delayed dispatches *)

TimerDelay(tm) == IF tm.kind = "INITIALIZE" THEN InitializeDelayMs ELSE SubmitDelayMs

\* Timer i may fire next: no timer started earlier is due at or before it.
CanFire(i) ==
    /\ i \in 1..Len(timers)
    /\ \A j \in 1..(i - 1) : TimerDelay(timers[j]) > TimerDelay(timers[i])

RemoveAt(seq, i) == [k \in 1..(Len(seq) - 1) |-> IF k < i THEN seq[k] ELSE seq[k + 1]]

\* Continuations whose page instance has been unmounted still run; their
\* setState calls no longer reach a mounted component.
Orphaned(tms) == [k \in 1..Len(tms) |-> [tms[k] EXCEPT !.live = FALSE]]

CanStartTimer ==
    /\ Len(timers) < MaxTimers
    /\ now + Len(timers) < MaxOps

\* Client-side navigation (sidebar links): the old page unmounts, the new one
\* mounts with fresh component state; the provider stays mounted.
Navigate(p) ==
    /\ Idle
    /\ p # page
    /\ page' = p
    /\ isSubmitting' = FALSE
    /\ showConfirmDialog' = FALSE
    /\ timers' = Orphaned(timers)
    /\ MountPage(p)
    /\ UNCHANGED <<storeVars, storedHistory, lastOp, wiped, bootStored, extraVars>>

\* InitializePage: "Redirect if already initialized" effect.
RedirectIfInitialized ==
    /\ phase = "running"
    /\ RedirectPending
    /\ page' = "dashboard"
    /\ isSubmitting' = FALSE
    /\ showConfirmDialog' = FALSE
    /\ timers' = Orphaned(timers)
    /\ UNCHANGED <<storeVars, lastOp, wiped, bootStored, reconcileVars, extraVars>>

\* The continuation after the awaited setTimeout of a submit handler:
\* dispatch, then the handler's setState calls on its own page instance.
Continue(i, kind, op) ==
    /\ Idle
    /\ CanFire(i)
    /\ timers[i].kind = kind
    /\ Dispatch([type |-> kind, payload |-> timers[i].payload])
    /\ timers' = RemoveAt(timers, i)
    /\ isSubmitting' = IF timers[i].live THEN FALSE ELSE isSubmitting
    /\ showConfirmDialog' =
          IF timers[i].live /\ kind = "INITIALIZE" THEN FALSE ELSE showConfirmDialog
    /\ lastOp' = op
    /\ UNCHANGED <<stored, phase, pendingLoad, backup, page, wiped, bootStored, reconcileVars, extraVars>>

\* InitializePage.handleSubmit: validation passed (amount > 0, date valid) and
\* the rate limiter allowed the attempt.
InitializeSubmit ==
    /\ Idle
    /\ page = "initialize"
    /\ ~showConfirmDialog
    /\ showConfirmDialog' = TRUE
    /\ UNCHANGED <<storeVars, page, isSubmitting, timers, lastOp, wiped, bootStored, reconcileVars, extraVars>>

\* InitializePage.handleConfirmInitialization up to its await.
InitializeConfirm(amount, date) ==
    /\ Idle
    /\ page = "initialize"
    /\ showConfirmDialog
    /\ ~isSubmitting
    /\ CanStartTimer
    /\ isSubmitting' = TRUE
    /\ timers' = Append(timers, [kind |-> "INITIALIZE", live |-> TRUE,
                                 payload |-> [amount |-> amount, date |-> date]])
    /\ UNCHANGED <<storeVars, page, showConfirmDialog, lastOp, wiped, bootStored, reconcileVars, extraVars>>

InitializeContinue(i) == Continue(i, "INITIALIZE", "initialize")

\* DisbursePage.handleSubmit up to its await: errors is computed from the
\* rendered state, the submit button is disabled while isSubmitting.
DisburseSubmit(amount, date, purpose, recipient) ==
    /\ Idle
    /\ page = "disburse"
    /\ state.isInitialized
    /\ ~isSubmitting
    /\ amount > 0
    /\ ~(amount > state.balance)
    /\ CanStartTimer
    /\ isSubmitting' = TRUE
    /\ timers' = Append(timers, [kind |-> "DISBURSE", live |-> TRUE,
                                 payload |-> [amount |-> amount, date |-> date,
                                              purpose |-> purpose,
                                              recipient |-> recipient]])
    /\ UNCHANGED <<storeVars, page, showConfirmDialog, lastOp, wiped, bootStored, reconcileVars, extraVars>>

DisburseContinue(i) == Continue(i, "DISBURSE", "disburse")

\* ReplenishPage.handleSubmit up to its await.
ReplenishSubmit(amount, date) ==
    /\ Idle
    /\ page = "replenish"
    /\ state.isInitialized
    /\ ~isSubmitting
    /\ amount > 0
    /\ CanStartTimer
    /\ isSubmitting' = TRUE
    /\ timers' = Append(timers, [kind |-> "REPLENISH", live |-> TRUE,
                                 payload |-> [amount |-> amount, date |-> date]])
    /\ UNCHANGED <<storeVars, page, showConfirmDialog, lastOp, wiped, bootStored, reconcileVars, extraVars>>

ReplenishContinue(i) == Continue(i, "REPLENISH", "replenish")

ResetFund == page = "settings" /\ handleResetFund
ExportData == page = "settings" /\ handleExportData
ImportData == page = "settings" /\ handleImportData
ImportDataFails(stage) == page = "settings" /\ handleImportDataFails(stage)

Next ==
    \/ LoadEffect
    \/ SaveEffect
    \/ RenderLoad
    \/ Reload
    \/ \E p \in Pages : Navigate(p)
    \/ RedirectIfInitialized
    \/ InitializeSubmit
    \/ \E a \in Amounts, d \in Dates : InitializeConfirm(a, d)
    \/ \E i \in 1..MaxTimers : InitializeContinue(i)
    \/ \E a \in Amounts, d \in Dates, p \in Purposes, r \in Recipients :
          DisburseSubmit(a, d, p, r)
    \/ \E i \in 1..MaxTimers : DisburseContinue(i)
    \/ \E a \in Amounts, d \in Dates : ReplenishSubmit(a, d)
    \/ \E i \in 1..MaxTimers : ReplenishContinue(i)
    \/ ResetFund
    \/ ExportData
    \/ ImportData

Spec == Init /\ [][Next]_vars

---------------------------------------------------------------------------
(* Startup without interruption: the session is restarted only when idle,   *)
(* and React runs the scheduled effects and renders.                        *)

\* A reload of an idle session; the entry the new session finds is recorded.
Restart == Idle /\ StartSession /\ bootStored' = stored

NextHydrate ==
    \/ LoadEffect
    \/ SaveEffect
    \/ RenderLoad
    \/ Restart
    \/ \E a \in Amounts, d \in Dates : initialize(a, d)
    \/ \E a \in Amounts, d \in Dates, p \in Purposes, r \in Recipients : disburse(a, d, p, r)
    \/ \E a \in Amounts, d \in Dates : replenish(a, d)
    \/ handleResetFund

SpecHydrate ==
    /\ Init
    /\ [][NextHydrate]_vars
    /\ WF_vars(LoadEffect)
    /\ WF_vars(SaveEffect)
    /\ WF_vars(RenderLoad)

---------------------------------------------------------------------------
(* The reconcile page (src/app/reconcile/page.tsx).  Ledger operations are   *)
(* dispatched from the other pages.                                          *)

Epsilon == 2        \* the tolerance 0.01, in units of 0.005
HistoryCap == 10    \* .slice(0, 10): "Keep last 10 records"

\* Texts of the number input (type="number" yields "" for anything that is
\* no number) and of the explanation box.
CashInputs == {"", "0", "0.005", "0.01", "0.015", "0.02"}
Explanations == {"", "miscount"}
ReconcilePages == {"dashboard", "reconcile"}

\* new Date().toISOString().split("T")[0]
Today == "2024-01-01"

NaN == [nan |-> TRUE, value |-> 0]
Num(n) == [nan |-> FALSE, value |-> n]

\* Number.parseFloat on the input texts, in units of 0.005.
ParseFloat(text) ==
    CASE text = "0" -> Num(0)
      [] text = "0.005" -> Num(1)
      [] text = "0.01" -> Num(2)
      [] text = "0.015" -> Num(3)
      [] text = "0.02" -> Num(4)
      [] OTHER -> NaN

\* x || 0 on a number: NaN and 0 are falsy.
OrZero(x) == IF x.nan \/ x.value = 0 THEN 0 ELSE x.value

Abs(x) == IF x < 0 THEN -x ELSE x

Take(seq, n) == SubSeq(seq, 1, IF Len(seq) < n THEN Len(seq) ELSE n)

\* Computed at every render of ReconcilePage.
actualAmount == OrZero(ParseFloat(actualCash))

\* What the user types into the cash field, and the value the field reports
\* to onChange: an <input type="number"> reports "" for text that is no number.
TypedTexts == CashInputs \cup {"abc"}
IsValidNumberText(typed) == typed \in {"0", "0.005", "0.01", "0.015", "0.02"}
InputValue(typed) == IF IsValidNumberText(typed) THEN typed ELSE ""
difference == actualAmount - state.balance
isDifferenceSignificant == Abs(difference) > Epsilon

\* The label of the "Difference Display" box.
DifferenceLabel ==
    IF isDifferenceSignificant
    THEN (IF difference > 0 THEN "Overage" ELSE "Shortage")
    ELSE "Balanced"

\* The badge of a record in the "Reconciliation History" list.
RecordBadge(record) ==
    IF Abs(record.difference) < Epsilon THEN "Balanced"
    ELSE IF record.difference > 0 THEN "Overage" ELSE "Shortage"

\* Mutant of the record: the difference taken the other way round.
reconciliationFlipsSign(explanation) ==
    [id |-> <<"REC", now + 1>>,
     date |-> Today,
     theoreticalBalance |-> state.balance,
     actualCash |-> actualAmount,
     difference |-> state.balance - actualAmount,
     explanation |-> IF explanation = "" THEN undefined ELSE <<explanation>>,
     timestamp |-> now + 1]

\* const reconciliation: ReconciliationRecord = { ... }
reconciliation(explanation) ==
    [id |-> <<"REC", now + 1>>,
     date |-> Today,
     theoreticalBalance |-> state.balance,
     actualCash |-> actualAmount,
     difference |-> difference,
     explanation |-> IF explanation = "" THEN undefined ELSE <<explanation>>,
     timestamp |-> now + 1]

\* Mutant of the list update: the new record goes to the end.
updatedHistoryAppends(record) ==
    Take(Append(reconciliationHistory, record), HistoryCap)

\* [reconciliation, ...reconciliationHistory].slice(0, 10)
\* Mutant of updatedHistory: the list is never cut.
updatedHistoryUncapped(record) == <<record>> \o reconciliationHistory

updatedHistory(record) ==
    Take(<<record>> \o reconciliationHistory, HistoryCap)

setActualCash(text) ==
    /\ Idle
    /\ page = "reconcile"
    /\ state.isInitialized
    /\ ~hasReconciled
    /\ text # actualCash
    /\ actualCash' = text
    /\ UNCHANGED <<storeVars, uiVars, hasReconciled, reconciliationHistory, storedHistory, lastOp, wiped, bootStored, extraVars>>

\* Mutant of handleReconcile: books the counted cash as the new balance.
handleReconcileAdjustsLedger(explanation) ==
    /\ Idle
    /\ page = "reconcile"
    /\ state.isInitialized
    /\ ~hasReconciled
    /\ actualCash # ""
    /\ now < MaxOps
    /\ reconciliationHistory' = updatedHistory(reconciliation(explanation))
    /\ storedHistory' = StringifyHistory(updatedHistory(reconciliation(explanation)))
    /\ hasReconciled' = TRUE
    /\ now' = now + 1
    /\ lastOp' = "reconcile"
    /\ state' = [state EXCEPT !.balance = actualAmount]
    /\ savePending' = TRUE
    /\ created' = <<reconciliation(explanation)>> \o created
    /\ UNCHANGED <<stored, phase, pendingLoad, backup, uiVars, actualCash, wiped, bootStored, otherTab, limiterVars>>

\* Mutant of handleReconcile: no check of the input; an empty input is
\* recorded as a count of 0.
handleReconcileSkipsValidation(explanation) ==
    /\ Idle
    /\ page = "reconcile"
    /\ state.isInitialized
    /\ ~hasReconciled
    /\ reconciliationHistory' = updatedHistory(reconciliation(explanation))
    /\ storedHistory' = StringifyHistory(updatedHistory(reconciliation(explanation)))
    /\ hasReconciled' = TRUE
    /\ now' = now + 1
    /\ lastOp' = "reconcile"
    /\ created' = <<reconciliation(explanation)>> \o created
    /\ UNCHANGED <<state, stored, phase, pendingLoad, savePending, backup, uiVars, actualCash, wiped, bootStored, otherTab, limiterVars>>

\* ReconcilePage.handleReconcile; the button is rendered while !hasReconciled.
\* The handler's check is !actualCash || isNaN(actualAmount); actualAmount is
\* Number.parseFloat(actualCash) || 0 and so never NaN.
handleReconcile(explanation) ==
    /\ Idle
    /\ page = "reconcile"
    /\ state.isInitialized
    /\ ~hasReconciled
    /\ IF actualCash = ""
       THEN \* the "Invalid Input" toast, return
            /\ lastOp' = "reconcileRejected"
            /\ UNCHANGED <<reconciliationHistory, storedHistory, hasReconciled, now, created>>
       ELSE /\ reconciliationHistory' = updatedHistory(reconciliation(explanation))
            /\ storedHistory' = StringifyHistory(updatedHistory(reconciliation(explanation)))
            /\ hasReconciled' = TRUE
            /\ now' = now + 1
            /\ lastOp' = "reconcile"
            /\ created' = <<reconciliation(explanation)>> \o created
    /\ UNCHANGED <<state, stored, phase, pendingLoad, savePending, backup, uiVars, actualCash, wiped, bootStored, otherTab, limiterVars>>

\* ReconcilePage.resetForm ("New Reconciliation")
resetForm ==
    /\ Idle
    /\ page = "reconcile"
    /\ hasReconciled
    /\ actualCash' = ""
    /\ hasReconciled' = FALSE
    /\ UNCHANGED <<storeVars, uiVars, reconciliationHistory, storedHistory, lastOp, wiped, bootStored, extraVars>>

NextReconcile ==
    \/ LoadEffect
    \/ SaveEffect
    \/ RenderLoad
    \/ Reload
    \/ \E p \in ReconcilePages : Navigate(p)
    \/ \E a \in Amounts, d \in Dates : page # "reconcile" /\ initialize(a, d)
    \/ \E a \in Amounts, d \in Dates, p \in Purposes, r \in Recipients :
          page # "reconcile" /\ disburse(a, d, p, r)
    \/ \E a \in Amounts, d \in Dates : page # "reconcile" /\ replenish(a, d)
    \/ \E typed \in TypedTexts : setActualCash(InputValue(typed))
    \/ \E e \in Explanations : now < MaxOps /\ handleReconcile(e)
    \/ resetForm

SpecReconcile == Init /\ [][NextReconcile]_vars

---------------------------------------------------------------------------
(* Long series of reconciliations: more of them than the history keeps.      *)

MaxReconciliations == 12   \* caps `now` for the reconciliations of NextCap

\* The one cash count typed in a long series.
CapCashInput == "0.015"

NextCap ==
    \/ LoadEffect
    \/ SaveEffect
    \/ RenderLoad
    \/ Reload
    \/ \E p \in ReconcilePages : Navigate(p)
    \/ \E a \in Amounts, d \in Dates : page # "reconcile" /\ initialize(a, d)
    \/ setActualCash(InputValue(CapCashInput))
    \/ now < MaxReconciliations /\ handleReconcile("miscount")
    \/ resetForm

SpecCap == Init /\ [][NextCap]_vars

---------------------------------------------------------------------------
(* Backup and restore: the settings page's export and import next to the     *)
(* ledger operations and the reconcile page.                                 *)

BackupPages == {"dashboard", "reconcile", "settings"}

\* The one cash count typed on the reconcile page here.
BackupCashInput == "0.02"

NextBackup ==
    \/ LoadEffect
    \/ SaveEffect
    \/ RenderLoad
    \/ Reload
    \/ \E p \in BackupPages : Navigate(p)
    \/ \E a \in Amounts, d \in Dates : page = "dashboard" /\ initialize(a, d)
    \/ \E a \in Amounts, d \in Dates, p \in Purposes, r \in Recipients :
          page = "dashboard" /\ disburse(a, d, p, r)
    \/ \E a \in Amounts, d \in Dates : page = "dashboard" /\ replenish(a, d)
    \/ setActualCash(InputValue(BackupCashInput))
    \/ now < MaxOps /\ handleReconcile("miscount")
    \/ ResetFund
    \/ ExportData
    \/ ImportData

SpecBackup == Init /\ [][NextBackup]_vars

\* The same, with imports that end in the handler's catch branch.
NextImportFailure ==
    \/ NextBackup
    \/ \E stage \in ImportStages : ImportDataFails(stage)

SpecImportFailure == Init /\ [][NextImportFailure]_vars

---------------------------------------------------------------------------
(* The history page (src/unnamed/part_004, HistoryPage): its useMemo sorts   *)
(* the list it shows.  With no filter set that list is state.transactions    *)
(* itself, and Array.prototype.sort sorts in place.                          *)

HistoryDates == {"2024-01-01", "2024-01-02"}
HistoryPages == {"dashboard", "history"}
SortKeys == {"date", "amount"}
SortOrders == {"asc", "desc"}

\* new Date(date).getTime(), in days
GetTime(date) == IF date = "2024-01-01" THEN 19723 ELSE 19724

\* The comparator handed to sort.
Compare(a, b, sortBy, sortOrder) ==
    LET comparison == IF sortBy = "date"
                      THEN GetTime(a.date) - GetTime(b.date)
                      ELSE a.amount - b.amount
    IN IF sortOrder = "asc" THEN comparison ELSE -comparison

Front(seq) == SubSeq(seq, 1, Len(seq) - 1)

\* Array.prototype.sort is stable: x goes behind every entry not greater.
RECURSIVE InsertSorted(_, _, _, _)
InsertSorted(sorted, x, sortBy, sortOrder) ==
    IF sorted = <<>> THEN <<x>>
    ELSE IF Compare(sorted[Len(sorted)], x, sortBy, sortOrder) <= 0
         THEN Append(sorted, x)
         ELSE Append(InsertSorted(Front(sorted), x, sortBy, sortOrder),
                     sorted[Len(sorted)])

RECURSIVE Sort(_, _, _)
Sort(seq, sortBy, sortOrder) ==
    IF seq = <<>> THEN <<>>
    ELSE InsertSorted(Sort(Front(seq), sortBy, sortOrder), seq[Len(seq)],
                      sortBy, sortOrder)

\* HistoryPage.filteredAndSortedTransactions with filterType "all", no date
\* range and no search term: filtered is state.transactions, sorted in place.
\* The state object keeps its reference, so no effect is scheduled.
filteredAndSortedTransactions(sortBy, sortOrder) ==
    /\ Idle
    /\ page = "history"
    /\ state' = [state EXCEPT !.transactions = Sort(state.transactions, sortBy, sortOrder)]
    /\ UNCHANGED <<stored, phase, pendingLoad, savePending, now, backup, uiVars, lastOp, wiped, bootStored, reconcileVars, extraVars>>

NextHistory ==
    \/ LoadEffect
    \/ SaveEffect
    \/ RenderLoad
    \/ Reload
    \/ \E p \in HistoryPages : Navigate(p)
    \/ \E a \in Amounts, d \in HistoryDates : page # "history" /\ initialize(a, d)
    \/ \E a \in Amounts, d \in HistoryDates, p \in Purposes, r \in Recipients :
          page # "history" /\ disburse(a, d, p, r)
    \/ \E a \in Amounts, d \in HistoryDates : page # "history" /\ replenish(a, d)
    \/ \E sortBy \in SortKeys, sortOrder \in SortOrders :
          filteredAndSortedTransactions(sortBy, sortOrder)

SpecHistory == Init /\ [][NextHistory]_vars

---------------------------------------------------------------------------
(* Startup on a damaged entry: between sessions the "pettyCashData" text is  *)
(* cut short outside the application (an interrupted write, an edit in the   *)
(* browser's storage tools).                                                 *)

CutPoints == 0..(Len(Stringify(initialState)) - 1)

\* Only the first k parts of the persisted text remain.
CorruptEntry(k) ==
    /\ Idle
    /\ stored.has
    /\ CanParse(stored.text)
    /\ k \in CutPoints
    /\ stored' = [has |-> TRUE, text |-> SubSeq(stored.text, 1, k)]
    /\ UNCHANGED <<state, phase, pendingLoad, savePending, now, backup, uiVars, lastOp, wiped, bootStored, reconcileVars, extraVars>>

NextCorrupt ==
    \/ LoadEffect
    \/ SaveEffect
    \/ RenderLoad
    \/ Restart
    \/ \E a \in Amounts, d \in Dates : initialize(a, d)
    \/ \E a \in Amounts, d \in Dates, p \in Purposes, r \in Recipients : disburse(a, d, p, r)
    \/ \E a \in Amounts, d \in Dates : replenish(a, d)
    \/ \E k \in CutPoints : CorruptEntry(k)

SpecCorrupt == Init /\ [][NextCorrupt]_vars

---------------------------------------------------------------------------
(* Storage that refuses writes: localStorage.setItem throws (quota exceeded, *)
(* storage unavailable).  The save effect calls it outside any try block and *)
(* PettyCashProvider sits above every error boundary of the application, so  *)
(* the error unmounts the tree.                                              *)

SaveEffectThrows ==
    /\ phase = "running"
    /\ savePending
    /\ phase' = "crashed"
    /\ savePending' = FALSE
    /\ UNCHANGED <<state, stored, pendingLoad, now, backup, uiVars, lastOp, wiped, bootStored, reconcileVars, extraVars>>

NextWriteFailure ==
    \/ LoadEffect
    \/ SaveEffect
    \/ SaveEffectThrows
    \/ RenderLoad
    \/ Reload
    \/ \E a \in Amounts, d \in Dates : initialize(a, d)
    \/ \E a \in Amounts, d \in Dates, p \in Purposes, r \in Recipients : disburse(a, d, p, r)
    \/ \E a \in Amounts, d \in Dates : replenish(a, d)

SpecWriteFailure == Init /\ [][NextWriteFailure]_vars

---------------------------------------------------------------------------
(* Two tabs of the application in one browser: each has its own provider    *)
(* (in-memory ledger and effects), both use the same localStorage.  The     *)
(* variables state, phase, pendingLoad and savePending are those of the tab *)
(* that takes the next step; otherTab holds the other tab's.                *)

ThisTab == [state |-> state, phase |-> phase,
            pendingLoad |-> pendingLoad, savePending |-> savePending]

\* useReducer(pettyCashReducer, initialState) of a provider that mounts.
NewTab == [state |-> initialState, phase |-> "mount",
           pendingLoad |-> <<>>, savePending |-> TRUE]

\* The next step is taken by the other tab, which is opened if it was not.
SwitchTab ==
    /\ LET next == IF otherTab.phase = "closed" THEN NewTab ELSE otherTab IN
        /\ state' = next.state
        /\ phase' = next.phase
        /\ pendingLoad' = next.pendingLoad
        /\ savePending' = next.savePending
    /\ otherTab' = ThisTab
    /\ UNCHANGED <<stored, now, backup, uiVars, reconcileVars, lastOp, wiped, bootStored, limiterVars, created>>

\* Nothing is scheduled in the other tab.
OtherTabIdle ==
    otherTab.phase = "running" /\ ~otherTab.savePending /\ otherTab.pendingLoad = <<>>

NextTabs ==
    \/ LoadEffect
    \/ SaveEffect
    \/ RenderLoad
    \/ SwitchTab
    \/ \E a \in Amounts, d \in Dates : initialize(a, d)
    \/ \E a \in Amounts, d \in Dates, p \in Purposes, r \in Recipients : disburse(a, d, p, r)
    \/ \E a \in Amounts, d \in Dates : replenish(a, d)

SpecTabs == Init /\ [][NextTabs]_vars

---------------------------------------------------------------------------
(* The rate limiter (src/lib/security.ts): the module's rateLimiter object, *)
(* called with the same maxAttempts and windowMs at every call.  Here `now` *)
(* is Date.now(), advanced by Tick.                                         *)

MaxAttempts == 2    \* the maxAttempts argument of the calls
WindowMs == 3       \* the windowMs argument of the calls
MaxTime == 4        \* caps `now` for Tick

\* windowAttempts.filter((t) => now - t < windowMs)
RECURSIVE recent(_)
recent(windowAttempts) ==
    IF windowAttempts = <<>> THEN <<>>
    ELSE IF now - Head(windowAttempts) < WindowMs
         THEN <<Head(windowAttempts)>> \o recent(Tail(windowAttempts))
         ELSE recent(Tail(windowAttempts))

\* Mutant of isAllowed: the limit is compared with > instead of >=.
isAllowedOneMore(key) ==
    /\ IF Len(recent(attempts[key])) > MaxAttempts
       THEN /\ lastOp' = "denied"
            /\ UNCHANGED <<attempts, granted>>
       ELSE /\ attempts' = [attempts EXCEPT ![key] = Append(recent(attempts[key]), now)]
            /\ granted' = [granted EXCEPT ![key] = Append(@, now)]
            /\ lastOp' = "allowed"
    /\ UNCHANGED <<storeVars, uiVars, reconcileVars, wiped, bootStored, otherTab, created>>

\* RateLimiter.isAllowed(key, MaxAttempts, WindowMs); lastOp tells the result.
isAllowed(key) ==
    /\ IF Len(recent(attempts[key])) >= MaxAttempts
       THEN /\ lastOp' = "denied"
            /\ UNCHANGED <<attempts, granted>>
       ELSE /\ attempts' = [attempts EXCEPT ![key] = Append(recent(attempts[key]), now)]
            /\ granted' = [granted EXCEPT ![key] = Append(@, now)]
            /\ lastOp' = "allowed"
    /\ UNCHANGED <<storeVars, uiVars, reconcileVars, wiped, bootStored, otherTab, created>>

\* RateLimiter.reset(key): this.attempts.delete(key)
reset(key) ==
    /\ attempts' = [attempts EXCEPT ![key] = <<>>]
    /\ granted' = [granted EXCEPT ![key] = <<>>]
    /\ lastOp' = "limiterReset"
    /\ UNCHANGED <<storeVars, uiVars, reconcileVars, wiped, bootStored, otherTab, created>>

\* Time passes.
Tick ==
    /\ now < MaxTime
    /\ now' = now + 1
    /\ UNCHANGED <<state, stored, phase, pendingLoad, savePending, backup, uiVars, reconcileVars, lastOp, wiped, bootStored, extraVars>>

NextLimiter ==
    \/ \E key \in Keys : isAllowed(key)
    \/ \E key \in Keys : reset(key)
    \/ Tick

SpecLimiter == Init /\ [][NextLimiter]_vars

---------------------------------------------------------------------------
(* The dashboard (src/app/page.tsx): the balance-trend series of a preset    *)
(* date range, over ledgers longer than the series.                          *)

MaxLedger == 12     \* caps `now` for the ledger operations of NextDashboard
TrendWindow == 10   \* state.transactions.slice(-10)

\* The amounts of a long session: the fund's opening amount and the amount
\* of each later entry.
OpeningAmount == 2
EntryAmount == 1

\* state.transactions.slice(-10)
relevantTransactions ==
    IF Len(state.transactions) <= TrendWindow
    THEN state.transactions
    ELSE SubSeq(state.transactions,
                Len(state.transactions) - TrendWindow + 1,
                Len(state.transactions))

\* state.transactions.find((t) => t.type === "initialization")?.amount || 0
FirstInitializationAmount ==
    LET found == {i \in 1..Len(state.transactions) :
                    state.transactions[i].type = "initialization"}
    IN IF found = {} THEN 0
       ELSE state.transactions[CHOOSE i \in found : \A k \in found : i <= k].amount

\* relevantTransactions.reduce(...): the balances of the trend's points.
RECURSIVE balanceHistory(_)
balanceHistory(txs) ==
    IF txs = <<>> THEN <<>>
    ELSE LET acc == balanceHistory(Front(txs))
             transaction == txs[Len(txs)]
             prevBalance == IF Len(txs) = 1 THEN FirstInitializationAmount
                            ELSE acc[Len(acc)]
             newBalance ==
                 CASE transaction.type = "disbursement" -> prevBalance - transaction.amount
                   [] transaction.type = "replenishment" -> prevBalance + transaction.amount
                   [] transaction.type = "initialization" -> transaction.amount
                   [] OTHER -> prevBalance
         IN Append(acc, newBalance)

\* A dispatch from a page's submit handler in a long session.
LedgerStep(action, op) ==
    /\ Idle
    /\ now < MaxLedger
    /\ Dispatch(action)
    /\ lastOp' = op
    /\ UNCHANGED <<stored, phase, pendingLoad, backup, uiVars, wiped, bootStored, reconcileVars, extraVars>>

\* The pages' own guards: the initialize page redirects once the fund is
\* initialized, the other forms need an initialized fund, and the disburse
\* form rejects an amount above the balance.
NextDashboard ==
    \/ LoadEffect
    \/ SaveEffect
    \/ RenderLoad
    \/ Idle /\ Reload
    \/ \E d \in Dates :
          /\ ~state.isInitialized
          /\ LedgerStep([type |-> "INITIALIZE",
                         payload |-> [amount |-> OpeningAmount, date |-> d]],
                        "initialize")
    \/ \E d \in Dates, p \in Purposes, r \in Recipients :
          /\ state.isInitialized
          /\ EntryAmount <= state.balance
          /\ LedgerStep([type |-> "DISBURSE",
                         payload |-> [amount |-> EntryAmount, date |-> d,
                                      purpose |-> p, recipient |-> r]],
                        "disburse")
    \/ \E d \in Dates :
          /\ state.isInitialized
          /\ LedgerStep([type |-> "REPLENISH",
                         payload |-> [amount |-> EntryAmount, date |-> d]],
                        "replenish")

SpecDashboard == Init /\ [][NextDashboard]_vars

---------------------------------------------------------------------------
(* Operators used by the properties *)

RECURSIVE SumOfType(_, _)
SumOfType(txs, type) ==
    IF txs = <<>> THEN 0
    ELSE (IF Head(txs).type = type THEN Head(txs).amount ELSE 0)
         + SumOfType(Tail(txs), type)

IsPrefix(a, b) == Len(a) <= Len(b) /\ SubSeq(b, 1, Len(a)) = a

Last(seq) == seq[Len(seq)]

\* The ledger a snapshot entry stands for: what hydration makes of it.
LedgerOf(entry) == IF entry.has THEN Parse(entry.text) ELSE initialState

HasType(txs, type) == \E i \in 1..Len(txs) : txs[i].type = type

RECURSIVE CountOfType(_, _)
CountOfType(txs, type) ==
    IF txs = <<>> THEN 0
    ELSE (IF Head(txs).type = type THEN 1 ELSE 0) + CountOfType(Tail(txs), type)

\* The entries stand in the order of their dispatch.
InDispatchOrder(txs) ==
    \A i \in 1..(Len(txs) - 1) : txs[i].timestamp < txs[i + 1].timestamp

\* Each entry is newer than the one after it.
NewestFirst(h) == \A i \in 1..(Len(h) - 1) : h[i].timestamp > h[i + 1].timestamp

---------------------------------------------------------------------------
(* C1: in every reachable state of the store, balance equals the            *)
(* initialization amount minus the sum of the disbursement amounts plus the *)
(* sum of the replenishment amounts found in transactions.                  *)
C1_BalanceIsFold ==
    state.balance = SumOfType(state.transactions, "initialization")
                    - SumOfType(state.transactions, "disbursement")
                    + SumOfType(state.transactions, "replenishment")

C1_Witness ==
    /\ Idle
    /\ HasType(state.transactions, "initialization")
    /\ HasType(state.transactions, "disbursement")
    /\ HasType(state.transactions, "replenishment")
    /\ state.balance # 0

(* C2: after reset() the in-memory ledger is balance 0, no transactions,    *)
(* isInitialized false, and the persisted pettyCashData entry is cleared.   *)
C2_ResetClearsLedger ==
    lastOp = "reset" => (state = initialState /\ stored = NoData)

(* C3: once reset() has run, no transaction recorded before it appears in   *)
(* the in-memory ledger or in the persisted snapshot for the rest of the    *)
(* session, whatever initialize, disburse and replenish do afterwards.      *)
C3_ResetIrreversible ==
    \A id \in wiped :
        /\ id \notin TxIds(state)
        /\ id \notin TxIds(LedgerOf(stored))

C5_InitializeFromEmpty ==
    [][ \A a \in Amounts, d \in Dates :
          (initialize(a, d) /\ state = initialState)
          => /\ state'.balance = a
             /\ state'.isInitialized = TRUE
             /\ Len(state'.transactions) = 1
             /\ state'.transactions[1].type = "initialization"
             /\ state'.transactions[1].amount = a
             /\ state'.transactions[1].date = d ]_vars

\* now = 1: the first transaction ever created, so the ledger before was empty.
C5_Witness ==
    /\ lastOp = "initialize"
    /\ now = 1
    /\ state.isInitialized
    /\ Len(state.transactions) = 1

(* C6: disburse and replenish each append exactly one transaction of their  *)
(* own type as the last element, with the given fields, change balance by   *)
(* exactly -amount resp. +amount, and leave isInitialized and all earlier   *)
(* transactions unchanged.                                                  *)
C6_DisburseReplenishEffect ==
    [][ /\ \A a \in Amounts, d \in Dates, p \in Purposes, r \in Recipients :
              disburse(a, d, p, r)
              => /\ Len(state'.transactions) = Len(state.transactions) + 1
                 /\ SubSeq(state'.transactions, 1, Len(state.transactions))
                        = state.transactions
                 /\ Last(state'.transactions).type = "disbursement"
                 /\ Last(state'.transactions).amount = a
                 /\ Last(state'.transactions).date = d
                 /\ Last(state'.transactions).purpose = p
                 /\ Last(state'.transactions).recipient = r
                 /\ state'.balance = state.balance - a
                 /\ state'.isInitialized = state.isInitialized
        /\ \A a \in Amounts, d \in Dates :
              replenish(a, d)
              => /\ Len(state'.transactions) = Len(state.transactions) + 1
                 /\ SubSeq(state'.transactions, 1, Len(state.transactions))
                        = state.transactions
                 /\ Last(state'.transactions).type = "replenishment"
                 /\ Last(state'.transactions).amount = a
                 /\ Last(state'.transactions).date = d
                 /\ state'.balance = state.balance + a
                 /\ state'.isInitialized = state.isInitialized ]_vars

C6_Witness ==
    /\ lastOp = "replenish"
    /\ Len(state.transactions) = 3
    /\ state.transactions[2].type = "disbursement"
    /\ state.transactions[3].type = "replenishment"

(* C7: the store does not enforce a non-negative balance: a DISBURSE whose  *)
(* amount exceeds the current balance is applied like any other, recording  *)
(* the transaction and leaving the balance negative.                        *)
C7_StoreAcceptsOverdraw ==
    [][ \A a \in Amounts, d \in Dates, p \in Purposes, r \in Recipients :
          (disburse(a, d, p, r) /\ a > state.balance)
          => /\ state'.balance = state.balance - a
             /\ state'.balance < 0
             /\ Len(state'.transactions) = Len(state.transactions) + 1
             /\ Last(state'.transactions).type = "disbursement" ]_vars

C7_Witness ==
    /\ lastOp = "disburse"
    /\ state.isInitialized
    /\ state.balance < 0
    /\ Last(state.transactions).type = "disbursement"

(* C8: when every disbursement goes through the disburse form, the balance  *)
(* of an initialized ledger never becomes negative, also across the delay   *)
(* between the form's validation and its dispatch.                          *)
C8_FormKeepsBalanceNonNegative == state.balance >= 0

(* C9: whenever every dispatched operation and its persistence effect have  *)
(* completed, the persisted pettyCashData snapshot stands for the same      *)
(* ledger as the in-memory state.                                           *)
C9_QuiescentStorageMatchesMemory == Idle => LedgerOf(stored) = state

(* C10: when the application starts with a persisted snapshot S, hydration  *)
(* eventually completes with the in-memory ledger equal to S and the        *)
(* persisted snapshot still equal to S.                                     *)
C10_HydrationCompletes ==
    (phase = "mount" /\ bootStored.has)
    ~> ( /\ Idle
         /\ lastOp = "hydrate"
         /\ state = Parse(bootStored.text)
         /\ stored = bootStored )

C10_Witness ==
    /\ Idle
    /\ lastOp = "hydrate"
    /\ bootStored.has
    /\ state = Parse(bootStored.text)
    /\ stored = bootStored
    /\ Len(state.transactions) >= 2

C12_MalformedFallsBack ==
    ( /\ bootStored.has
      /\ ~CanParse(bootStored.text)
      /\ lastOp \in {"reload", "hydrate"} )
    => /\ lastOp = "reload"
       /\ pendingLoad = <<>>
       /\ state = initialState
       /\ phase # "crashed"

\* Startup on a text cut short has completed: the save effect has written
\* the empty ledger over it.
C12_Witness ==
    /\ Idle
    /\ lastOp = "reload"
    /\ bootStored.has
    /\ bootStored.text # <<>>
    /\ ~CanParse(bootStored.text)
    /\ state = initialState
    /\ stored = [has |-> TRUE, text |-> Stringify(initialState)]

(* C13: a failing write of the ledger snapshot is caught where it is made   *)
(* and does not crash the page; the in-memory ledger keeps the new state    *)
(* until a later write persists it.                                         *)
C13_WriteFailureCaught == phase # "crashed"

(* C14: the reconcile page classifies a count as Balanced exactly when      *)
(* |physical - system| < 0.01, otherwise as Overage when the difference is  *)
(* positive and Shortage when it is negative.                               *)
C14_ClassifiedByTolerance ==
    (page = "reconcile" /\ state.isInitialized /\ actualCash # "")
    => DifferenceLabel = ( IF Abs(actualAmount - state.balance) < Epsilon
                           THEN "Balanced"
                           ELSE IF actualAmount - state.balance > 0
                                THEN "Overage" ELSE "Shortage" )

(* C15: completing a reconciliation leaves the ledger (balance,             *)
(* transactions, isInitialized) and the persisted pettyCashData snapshot    *)
(* as they were, whatever the discrepancy.                                  *)
C15_ReconcileKeepsLedger ==
    [][ (\E e \in Explanations : handleReconcile(e))
        => /\ state' = state
           /\ stored' = stored
           /\ savePending' = savePending ]_vars

\* A reconciliation with a discrepancy beyond the tolerance was completed on
\* a ledger that holds a disbursement.
C15_Witness ==
    /\ lastOp = "reconcile"
    /\ hasReconciled
    /\ Abs(reconciliationHistory[1].difference) > Epsilon
    /\ HasType(state.transactions, "disbursement")
    /\ LedgerOf(stored) = state

C17_HistoryNewestFirst ==
    /\ [](NewestFirst(ParseHistory(storedHistory))
          /\ \A i \in 1..Len(storedHistory) :
                ParseRecord(storedHistory[i]).id \notin TxIds(state))
    /\ [][ (actualCash # "" /\ \E e \in Explanations : handleReconcile(e))
           => LET old == ParseHistory(storedHistory)
                  new == ParseHistory(storedHistory')
              IN /\ new # <<>>
                 /\ new[1].timestamp = now'
                 /\ \A i \in 1..Len(old) : new[1].timestamp > old[i].timestamp
                 /\ Tail(new) = Take(old, HistoryCap - 1)
                 /\ state'.transactions = state.transactions ]_vars

\* Two reconciliations have been completed; both records are persisted.
C17_Witness ==
    /\ lastOp = "reconcile"
    /\ Len(storedHistory) >= 2
    /\ ParseHistory(storedHistory) = reconciliationHistory
    /\ reconciliationHistory[1].timestamp = now

(* C18: in every state reached through the store's own operations from the  *)
(* empty initial state, isInitialized is true if and only if transactions   *)
(* holds exactly one entry of type initialization.                          *)
C18_InitializedIffOneInitialization ==
    state.isInitialized <=> CountOfType(state.transactions, "initialization") = 1

\* A ledger initialized a second time, after other entries had been added.
C18_Witness ==
    /\ lastOp = "initialize"
    /\ now = MaxOps
    /\ state.isInitialized
    /\ CountOfType(state.transactions, "initialization") = 1

(* C19 as stated: isInitialized goes from false to true only by initialize  *)
(* and from true to false only by reset; nothing else (disburse, replenish, *)
(* loadFromStorage/import, unrecognized actions) changes it within a        *)
(* session.                                                                 *)
C19_OnlyInitializeAndReset ==
    [][ (state'.isInitialized # state.isInitialized)
        => \/ ~state.isInitialized /\ \E a \in Amounts, d \in Dates : initialize(a, d)
           \/ state.isInitialized /\ handleResetFund
           \/ Reload ]_vars

(* C19 amended: isInitialized goes from false to true only by initialize or *)
(* by loadFromStorage (hydration, import) of an initialized snapshot, and   *)
(* from true to false only by reset, by loadFromStorage of an uninitialized *)
(* snapshot or by the start of a new session; loadFromStorage sets it to    *)
(* the snapshot's value, and disburse and replenish never change it.        *)
C19_InitializedTransitions ==
    [][ /\ (state'.isInitialized # state.isInitialized)
           => \/ ~state.isInitialized /\ \E a \in Amounts, d \in Dates : initialize(a, d)
              \/ state.isInitialized /\ handleResetFund
              \/ RenderLoad
              \/ handleImportData
              \/ Reload
        /\ RenderLoad => state'.isInitialized = pendingLoad[1].isInitialized
        /\ handleImportData => state'.isInitialized = Parse(backup[1]).isInitialized
        /\ ( \/ \E a \in Amounts, d \in Dates, p \in Purposes, r \in Recipients :
                   disburse(a, d, p, r)
             \/ \E a \in Amounts, d \in Dates : replenish(a, d) )
           => state'.isInitialized = state.isInitialized ]_vars

\* Hydration has turned the flag on in a session that never initialized.
C19_Witness ==
    /\ lastOp = "hydrate"
    /\ state.isInitialized
    /\ HasType(state.transactions, "replenishment")

(* C20: the entries of transactions, in memory and as persisted, stand in   *)
(* the order in which their operations were dispatched; showing or          *)
(* re-sorting the history view does not change that order.                  *)
C20_DispatchOrder ==
    /\ InDispatchOrder(state.transactions)
    /\ InDispatchOrder(LedgerOf(stored).transactions)

(* C21: a successful import of a backup bundle with fundData F replaces the *)
(* ledger wholesale: the in-memory ledger and the persisted pettyCashData   *)
(* both equal F whatever the ledger was before, also once the save effect   *)
(* has run, and the persisted reconciliation history equals the bundle's.   *)
C21_ImportReplaces ==
    /\ []((lastOp = "import" /\ Idle) => LedgerOf(stored) = state)
    /\ [][ handleImportData
           => /\ state' = Parse(backup[1])
              /\ LedgerOf(stored') = Parse(backup[1])
              /\ ParseHistory(storedHistory') = ParseHistory(backup[2]) ]_vars

\* A backup with a reconciliation record has been restored over a storage
\* that reset had emptied.
C21_Witness ==
    /\ Idle
    /\ lastOp = "import"
    /\ wiped # {}
    /\ state = Parse(backup[1])
    /\ state.isInitialized
    /\ storedHistory # <<>>
    /\ storedHistory = backup[2]

(* C22: the UI never dispatches INITIALIZE while isInitialized is true, in   *)
(* every interleaving of startup hydration, the initialize form's submit,   *)
(* its confirm dialog and the one-second delay before the dispatch.         *)
C22_NoInitializeWhenInitialized ==
    [][ (\E i \in 1..MaxTimers : InitializeContinue(i)) => ~state.isInitialized ]_vars

(* C26: during startup with a valid persisted snapshot S, pettyCashData is   *)
(* never overwritten with anything other than S: at no step between the     *)
(* start of the session and the end of hydration does storage hold          *)
(* something else, such as the empty initial state.                         *)
C26_StartupKeepsSnapshot ==
    (bootStored.has /\ lastOp = "reload") => stored = bootStored

(* C27: the classification shown when a count is reconciled (the label of  *)
(* the difference box and the toast) equals the classification the history *)
(* list shows for the record it created, for every difference, also when   *)
(* |difference| is exactly 0.01.                                           *)
C27_LabelMatchesBadge ==
    [][ (actualCash # "" /\ \E e \in Explanations : handleReconcile(e))
        => DifferenceLabel = RecordBadge(reconciliationHistory'[1]) ]_vars

(* C28: import is all-or-nothing: whenever handleImportData ends in its     *)
(* failure branch, the in-memory ledger, the persisted pettyCashData and    *)
(* the persisted reconciliationHistory are exactly as they were before the  *)
(* import began.                                                            *)
C28_FailedImportChangesNothing ==
    [][ (\E stage \in ImportStages : ImportDataFails(stage))
        => UNCHANGED <<state, stored, storedHistory>> ]_vars

C23_HistoryCapped ==
    /\ Len(storedHistory) <= HistoryCap
    /\ ParseHistory(storedHistory) = Take(created, HistoryCap)

\* More reconciliations have been completed than the history keeps.
C23_Witness ==
    /\ lastOp = "reconcile"
    /\ Len(created) > HistoryCap
    /\ Len(storedHistory) = HistoryCap
    /\ ParseRecord(storedHistory[1]).timestamp = now
    /\ reconciliationHistory = ParseHistory(storedHistory)

(* C29: on the dashboard with a preset date range, the last point of the    *)
(* balance-trend series equals the ledger's current balance, for every      *)
(* ledger reached through initialize, disburse and replenish, also one with *)
(* more than 10 transactions.                                               *)
C29_TrendEndsAtBalance ==
    state.transactions # <<>>
    => LET series == balanceHistory(relevantTransactions)
       IN series[Len(series)] = state.balance

(* C25: with two tabs, each holding its own in-memory ledger and writing    *)
(* full snapshots, the persisted pettyCashData always equals the ledger of  *)
(* the tab that wrote last: the entry changes only when a tab's save effect *)
(* writes, and that write puts the writer's whole ledger there whatever the *)
(* entry held (no conflict detection), so that a transaction recorded in    *)
(* the other tab after both hydrated can be absent from it.                 *)
C25_LastWriterWins ==
    /\ [][ stored' # stored => SaveEffect ]_vars
    /\ [][ SaveEffect
           => /\ stored' = [has |-> TRUE, text |-> Stringify(state)]
              /\ LedgerOf(stored') = state'
              /\ otherTab' = otherTab ]_vars

\* A lost update: both tabs have hydrated and are quiescent, the entry holds
\* this tab's ledger, and a transaction recorded in the other tab is in
\* neither.
C25_Witness ==
    /\ Idle
    /\ OtherTabIdle
    /\ LedgerOf(stored) = state
    /\ state.isInitialized
    /\ otherTab.state.isInitialized
    /\ \E id \in TxIds(otherTab.state) :
          /\ id \notin TxIds(state)
          /\ id \notin TxIds(LedgerOf(stored))
    /\ \E id \in TxIds(state) : id \notin TxIds(otherTab.state)

\* The calls of isAllowed(key) since reset(key) that returned true at a time
\* in from..from + WindowMs - 1, a span shorter than WindowMs.
GrantedWithin(key, from) ==
    {i \in 1..Len(granted[key]) :
        from <= granted[key][i] /\ granted[key][i] < from + WindowMs}

(* C30: for every key and every sequence of isAllowed(key, maxAttempts,     *)
(* windowMs) calls with fixed parameters, at most maxAttempts calls return  *)
(* true within any time span shorter than windowMs; a call that returns     *)
(* false is not recorded; the keys are independent; and after reset(key)    *)
(* the next call for that key returns true.                                 *)
C30_RateLimited ==
    /\ [](\A key \in Keys, from \in 0..MaxTime :
             Cardinality(GrantedWithin(key, from)) <= MaxAttempts)
    /\ [][ \A key \in Keys :
             /\ (isAllowed(key) /\ lastOp' = "denied") => attempts' = attempts
             /\ (isAllowed(key) \/ reset(key))
                   => \A other \in Keys \ {key} : attempts'[other] = attempts[other]
             /\ reset(key) => attempts'[key] = <<>>
             /\ (isAllowed(key) /\ attempts[key] = <<>>)
                   => (lastOp' = "allowed" /\ attempts'[key] = <<now>>) ]_vars

\* A key was granted MaxAttempts calls, denied, and granted again once the
\* window had passed, while the other key was reset and granted anew.
C30_Witness ==
    /\ lastOp = "denied"
    /\ \E key \in Keys :
          /\ Len(granted[key]) > MaxAttempts
          /\ Len(attempts[key]) = MaxAttempts
          /\ \E other \in Keys \ {key} :
                /\ Len(granted[other]) = 1
                /\ attempts[other] = granted[other]

====
